---- MODULE Spec2Model ----
(***************************************************************************)
(* The galaxy generator of 18-galaxy-generator/src/script.js: the          *)
(* parameter bag, generateGalaxy (dispose the previous galaxy, allocate,   *)
(* fill, attach), the lil-gui controllers that call it on onFinishChange,  *)
(* and the per-frame tick.                                                 *)
(*                                                                         *)
(* Numbers are fixed point with three decimals (Scale = 1.0).  A           *)
(* Float32Array keeps its exact length and the contents of the slots of    *)
(* its first MaxTracked particles.  Math.random() is a draw from one of    *)
(* NStreams streams over a grid of RandomGrid values in [0, 1).            *)
(***************************************************************************)
EXTENDS Integers, Sequences, FiniteSets, TLC

\* ------------------------------------------------------------------ bounds
MaxCalls == 3
MaxTracked == 4
NStreams == 2

\* the frames of the particles animation that are followed
MaxFrames == 4

\* ------------------------------------------------------------- fixed point
Scale == 10 * 100
RandomGrid == 2 * 2
PI == (3142 * Scale) \div 1000

Min(a, b) == IF a <= b THEN a ELSE b
Max(a, b) == IF a >= b THEN a ELSE b
Abs(a) == IF a >= 0 THEN a ELSE -a

\* JavaScript division of two numbers, rounded toward zero
Quot(a, b) ==
  IF (a >= 0) = (b > 0) THEN Abs(a) \div Abs(b) ELSE -(Abs(a) \div Abs(b))

\* the product of two fixed-point numbers
Mul(a, b) == Quot(a * b, Scale)

\* the quotient of two fixed-point numbers
Div(a, b) == Quot(a * Scale, b)

\* i % b of JavaScript for i >= 0 and b # 0: the sign of the dividend
JsRem(i, b) == i % Abs(b)

\* Math.sin on fixed-point radians (Bhaskara's rational approximation)
SinHalf(x) ==
  LET t == Mul(x, PI - x)
  IN  Quot(16 * t * Scale, 5 * Mul(PI, PI) - 4 * t)

Sin(a) ==
  LET r == a % (2 * PI)
  IN  IF r <= PI THEN SinHalf(r) ELSE -SinHalf(r - PI)

\* Math.cos on fixed-point radians
Cos(a) == Sin(a + (PI \div 2))

\* Math.pow(u, p) for a fixed-point base and a whole exponent p >= 0
RECURSIVE PowInt(_, _)
PowInt(u, n) == IF n <= 0 THEN Scale ELSE Mul(u, PowInt(u, n - 1))

Pow(u, p) == PowInt(u, Quot(p, Scale))

\* the n-th Math.random() of the call that draws from stream s: in [0, 1)
Random(s, n) == Quot((((s + n) * (s + 1)) % RandomGrid) * Scale, RandomGrid)

\* new THREE.Color("#rrggbb"): the channels of the hex number, each in [0, 1]
Color(hex) ==
  << Quot(((hex \div 65536) % 256) * Scale, 255),
     Quot(((hex \div 256) % 256) * Scale, 255),
     Quot((hex % 256) * Scale, 255) >>

\* Color.lerp(color, alpha), but adding the scaled target color
LerpAdds(a, b, alpha) == a + Mul(b, alpha)

\* Color.lerp(color, alpha), but from the target color toward this one
LerpSwapped(a, b, alpha) == b + Mul(a - b, alpha)

\* Color.lerp(color, alpha), one channel
Lerp(a, b, alpha) == a + Mul(b - a, alpha)

\* ------------------------------------------------------------ parameters
Fields ==
  { "count", "size", "radius", "branches", "spin", "randomness",
    "randomnessPower", "insideColor", "outsideColor" }

\* const parameters = {} and its nine assignments
Defaults ==
  [ count |-> 100000,
    size |-> Scale \div 100,
    radius |-> 5 * Scale,
    branches |-> 3,
    spin |-> 1 * Scale,
    randomness |-> Scale \div 5,
    randomnessPower |-> 3 * Scale,
    insideColor |-> 16736304,
    outsideColor |-> 1784196 ]

\* the .min() and .max() of the seven number controllers
Limits ==
  [ count |-> << 100, 1000000 >>,
    size |-> << Scale \div 1000, Scale \div 10 >>,
    radius |-> << Scale \div 100, 20 * Scale >>,
    branches |-> << 2, 20 >>,
    spin |-> << -5 * Scale, 5 * Scale >>,
    randomness |-> << 0, 2 * Scale >>,
    randomnessPower |-> << 1 * Scale, 10 * Scale >> ]

\* what a controller without .min() and .max() stores: the value as entered
Unclamped(field, v) == v

\* what a controller stores for the value the user enters: a number
\* controller keeps it within its .min() and .max(), a color controller
\* stores it as it is
Clamp(field, v) ==
  IF field \in DOMAIN Limits
    THEN Max(Limits[field][1], Min(Limits[field][2], v))
    ELSE v

\* the values a user enters in the panel, in and out of the slider's range
Entered ==
  [ count |-> { 0, 200 },
    size |-> { 0 },
    radius |-> { 0 },
    branches |-> { 1 },
    spin |-> { -9 * Scale },
    randomness |-> { -1 * Scale },
    randomnessPower |-> { 0 },
    insideColor |-> { 16777215 },
    outsideColor |-> { 0 } ]

\* ---------------------------------------------------- one loop iteration
\* ((i % parameters.branches) / parameters.branches) * Math.PI * 2, but
\* without the remainder
BranchAngleNoRemainder(i, branches) ==
  Mul(Div(i * Scale, branches * Scale), PI) * 2

\* the branch angle, but of the array index i3 = i * 3 in place of i
BranchAngleOfSlot(i, branches) ==
  Mul(Div(JsRem(i * 3, branches) * Scale, branches * Scale), PI) * 2

\* const branchAngle =
\*   ((i % parameters.branches) / parameters.branches) * Math.PI * 2
BranchAngle(i, branches) ==
  Mul(Div(JsRem(i, branches) * Scale, branches * Scale), PI) * 2

\* the scatter along one axis, but without the parameters.randomness factor
RandomOffsetUnscaled(u, v, randomnessPower, randomness, radius) ==
  Mul(Pow(u, randomnessPower) * (IF v < Scale \div 2 THEN 1 ELSE -1), radius)

\* Math.pow(Math.random(), parameters.randomnessPower) *
\*   (Math.random() < 0.5 ? 1 : -1) * parameters.randomness * radius
\* for the two draws u and v
RandomOffset(u, v, randomnessPower, randomness, radius) ==
  Mul(Mul(Pow(u, randomnessPower) * (IF v < Scale \div 2 THEN 1 ELSE -1),
          randomness),
      radius)

\* the body of the particle loop for index i, drawing from stream s
Particle(p, s, i) ==
  LET n == 7 * i
      radius == Mul(Random(s, n), p.radius)
      spinAngle == Mul(radius, p.spin)
      branchAngle == BranchAngle(i, p.branches)
      offset(k) ==
        RandomOffset(Random(s, n + k), Random(s, n + k + 1),
                     p.randomnessPower, p.randomness, radius)
      randomX == offset(1)
      randomY == offset(3)
      randomZ == offset(5)
      colorInside == Color(p.insideColor)
      colorOutside == Color(p.outsideColor)
      alpha == Div(radius, p.radius)
  IN  [ radius |-> radius,
        spinAngle |-> spinAngle,
        branchAngle |-> branchAngle,
        randomX |-> randomX,
        randomY |-> randomY,
        randomZ |-> randomZ,
        position |->
          << Mul(Cos(branchAngle + spinAngle), radius) + randomX,
             randomY,
             Mul(Sin(branchAngle + spinAngle), radius) + randomZ >>,
        color |->
          [ c \in 1..3 |-> Lerp(colorInside[c], colorOutside[c], alpha) ] ]

\* ------------------------------------------------------------------ state
VARIABLES
  parameters,   \* the parameters object
  geometry,     \* let geometry: an object id, Null when null
  material,     \* let material
  points,       \* let points
  positions,    \* const positions of the running generateGalaxy call
  colors,       \* const colors of the running generateGalaxy call
  heap,         \* the reachable objects, by id
  children,     \* scene.children
  disposed,     \* the objects whose dispose() has been called
  log,          \* every object created so far: its type and creating call
  pc,           \* where the script or the running handler stands
  event,        \* the host event that made the running, or last, call
  editing,      \* the controller with a change not yet finished
  calls,        \* the number of generateGalaxy calls entered
  entry,        \* parameters, handles and scene when the last call was entered
  thrown,       \* whether the last call ended in a RangeError
  locals,       \* the loop locals of the tracked particles of the last fill
  loaded,       \* the script ran to its end: renderer and tick exist
  rendered,     \* the scene children drawn by the last renderer.render
  particles,    \* 17-particles: particlesGeometry.attributes.position.array
  initial,      \* 17-particles: the position array as the script filled it
  elapsedTime,  \* 17-particles: const elapsedTime of the last tick
  frames,       \* 17-particles: the number of ticks run
  lastRead,     \* 17-particles: the greatest index the last tick read
  lastWrite     \* 17-particles: the greatest index the last tick wrote

galaxyVars ==
  << parameters, geometry, material, points, positions, colors, heap,
     children, disposed, log, pc, event, editing, calls, entry, thrown,
     locals, loaded, rendered >>

particleVars ==
  << particles, initial, elapsedTime, frames, lastRead, lastWrite >>

vars == << galaxyVars, particleVars >>

Null == 0

\* the parameters, the handles and the scene, as a call finds them
Snapshot ==
  [ parameters |-> parameters, points |-> points, geometry |-> geometry,
    material |-> material, children |-> children, disposed |-> disposed ]

\* ------------------------------------------------------------------- heap
NoObjects == [ id \in {} |-> Null ]

\* the id of the next object created
NewId(lg) == Len(lg) + 1

\* the number of slots of an array whose contents are tracked
Tracked(length) == Min(length, 3 * MaxTracked)

\* parameters.count * 3, but one value per particle
BufferLengthPerParticle(count) == count

\* parameters.count * 3, but of the count the page loaded with
BufferLengthAtLoad(count) == Defaults.count * 3

\* parameters.count * 3, but of a count raised to at least one particle
BufferLengthOfAtLeastOne(count) == Max(count, 1) * 3

\* parameters.count * 3: three values per particle
BufferLength(count) == count * 3

\* new Float32Array(length): zero-filled
Float32Array(length) ==
  [ type |-> "Float32Array", length |-> length,
    data |-> [ k \in 1..Tracked(length) |-> 0 ] ]

\* new THREE.BufferGeometry(): no attributes yet
BufferGeometry ==
  [ type |-> "BufferGeometry", position |-> Null, color |-> Null ]

\* new THREE.PointsMaterial({...})
PointsMaterial(size) ==
  [ type |-> "PointsMaterial", size |-> size, sizeAttenuation |-> TRUE,
    depthWrite |-> FALSE, blending |-> "AdditiveBlending",
    vertexColors |-> TRUE ]

\* new THREE.Points(geometry, material)
Points(g, m) == [ type |-> "Points", geometry |-> g, material |-> m ]

\* new THREE.PerspectiveCamera(...)
PerspectiveCamera == [ type |-> "PerspectiveCamera" ]

\* the sequence without the elements equal to x
Remove(seq, x) == SelectSeq(seq, LAMBDA y : y # x)

Range(seq) == { seq[k] : k \in 1..Len(seq) }

\* the objects the script can still reach from its variables and the scene
Reachable(h, roots) ==
  LET r0 == (roots \cap DOMAIN h)
      r1 == r0 \cup
            { h[p].geometry : p \in { q \in r0 : h[q].type = "Points" } } \cup
            { h[p].material : p \in { q \in r0 : h[q].type = "Points" } }
      r2 == r1 \cup
            { h[g].position : g \in { q \in r1 \cap DOMAIN h : h[q].type = "BufferGeometry" } } \cup
            { h[g].color : g \in { q \in r1 \cap DOMAIN h : h[q].type = "BufferGeometry" } }
  IN  r2 \cap DOMAIN h

\* the heap once the unreachable objects are collected
Collect(h, roots) == [ id \in Reachable(h, roots) |-> h[id] ]

\* -------------------------------------------------------- generateGalaxy
\* a call of generateGalaxy is entered from the host event ev
Enter(ev) ==
  /\ calls < MaxCalls
  /\ calls' = calls + 1
  /\ event' = ev
  /\ entry' = Snapshot
  /\ thrown' = FALSE
  /\ pc' = "cleanup"
  /\ UNCHANGED << parameters, geometry, material, points, positions, colors,
                  heap, children, disposed, log, locals, loaded, rendered >>
  /\ UNCHANGED particleVars

\* the cleanup without scene.remove(points)
CleanupKeepsOld ==
  /\ pc = "cleanup"
  /\ IF points # Null
       THEN disposed' = disposed \cup { geometry, material }
       ELSE UNCHANGED disposed
  /\ pc' = "allocate"
  /\ UNCHANGED << parameters, geometry, material, points, positions, colors,
                  heap, children, log, event, editing, calls, entry, thrown,
                  locals, loaded, rendered >>
  /\ UNCHANGED particleVars

\* if (points !== null) { geometry.dispose(); material.dispose();
\* scene.remove(points) }
Cleanup ==
  /\ pc = "cleanup"
  /\ IF points # Null
       THEN /\ disposed' = disposed \cup { geometry, material }
            /\ children' = Remove(children, points)
       ELSE UNCHANGED << disposed, children >>
  /\ pc' = "allocate"
  /\ UNCHANGED << parameters, geometry, material, points, positions, colors,
                  heap, log, event, editing, calls, entry, thrown, locals,
                  loaded, rendered >>
  /\ UNCHANGED particleVars

\* the allocation, but writing again into the arrays of the geometry that
\* is being replaced when they have the length asked for
AllocateReusesArrays ==
  /\ pc = "allocate"
  /\ BufferLength(parameters.count) >= 0
  /\ LET g == NewId(log)
         made(t) == [ type |-> t, call |-> calls ]
         reuse ==
           /\ geometry \in DOMAIN heap
           /\ heap[geometry].position # Null
           /\ heap[heap[geometry].position].length = BufferLength(parameters.count)
     IN  /\ geometry' = g
         /\ positions' = IF reuse THEN heap[geometry].position ELSE g + 1
         /\ colors' = IF reuse THEN heap[geometry].color ELSE g + 2
         /\ heap' = (g :> BufferGeometry)
                      @@ ((g + 1) :> Float32Array(BufferLength(parameters.count)))
                      @@ ((g + 2) :> Float32Array(BufferLength(parameters.count)))
                      @@ heap
         /\ log' = log \o << made("BufferGeometry"), made("Float32Array"),
                             made("Float32Array") >>
  /\ pc' = "fill"
  /\ UNCHANGED << parameters, material, points, children, disposed, event,
                  editing, calls, entry, thrown, locals, loaded, rendered >>
  /\ UNCHANGED particleVars

\* geometry = new THREE.BufferGeometry(); the two new Float32Array(count * 3)
Allocate ==
  /\ pc = "allocate"
  /\ BufferLength(parameters.count) >= 0
  /\ LET g == NewId(log)
         made(t) == [ type |-> t, call |-> calls ]
     IN  /\ geometry' = g
         /\ positions' = g + 1
         /\ colors' = g + 2
         /\ heap' = (g :> BufferGeometry)
                      @@ ((g + 1) :> Float32Array(BufferLength(parameters.count)))
                      @@ ((g + 2) :> Float32Array(BufferLength(parameters.count)))
                      @@ heap
         /\ log' = log \o << made("BufferGeometry"), made("Float32Array"),
                             made("Float32Array") >>
  /\ pc' = "fill"
  /\ UNCHANGED << parameters, material, points, children, disposed, event,
                  editing, calls, entry, thrown, locals, loaded, rendered >>
  /\ UNCHANGED particleVars

\* new Float32Array(count * 3) throws a RangeError: the length is negative,
\* or the buffer cannot be allocated.  geometry is already the new, empty
\* geometry; the exception leaves generateGalaxy and its caller.
AllocateThrows ==
  /\ pc = "allocate"
  /\ BufferLength(parameters.count) # 0
  /\ LET g == NewId(log)
     IN  /\ geometry' = g
         /\ heap' = Collect((g :> BufferGeometry) @@ heap,
                            { g, material, points } \cup Range(children))
         /\ log' = Append(log, [ type |-> "BufferGeometry", call |-> calls ])
  /\ thrown' = TRUE
  /\ pc' = "idle"
  /\ UNCHANGED << parameters, material, points, positions, colors, children,
                  disposed, event, editing, calls, entry, locals, loaded,
                  rendered >>
  /\ UNCHANGED particleVars

\* the particle loop: for (let i = 0; i < parameters.count; i++) { ... }
Fill ==
  /\ pc = "fill"
  /\ \E s \in 0..(NStreams - 1) :
       LET n == Max(0, Min(parameters.count, MaxTracked))
           particle(i) == Particle(parameters, s, i)
           slot(k) == (k - 1) \div 3
           axis(k) == ((k - 1) % 3) + 1
           written(array, k) == k \in DOMAIN heap[array].data /\ slot(k) < n
       IN  /\ heap' =
                [ heap EXCEPT
                    ![positions].data =
                      [ k \in DOMAIN heap[positions].data |->
                          IF written(positions, k)
                            THEN particle(slot(k)).position[axis(k)]
                            ELSE heap[positions].data[k] ],
                    ![colors].data =
                      [ k \in DOMAIN heap[colors].data |->
                          IF written(colors, k)
                            THEN particle(slot(k)).color[axis(k)]
                            ELSE heap[colors].data[k] ] ]
           /\ locals' = [ k \in 1..n |-> particle(k - 1) ]
  /\ pc' = "attach"
  /\ UNCHANGED << parameters, geometry, material, points, positions, colors,
                  children, disposed, log, event, editing, calls, entry,
                  thrown, loaded, rendered >>
  /\ UNCHANGED particleVars

\* geometry.setAttribute twice, material = new PointsMaterial, points = new
\* Points(geometry, material), scene.add(points); the call returns
Attach ==
  /\ pc = "attach"
  /\ LET m == NewId(log)
         p == m + 1
         made(t) == [ type |-> t, call |-> calls ]
         h == (m :> PointsMaterial(parameters.size))
                @@ (p :> Points(geometry, m))
                @@ [ heap EXCEPT ![geometry].position = positions,
                                 ![geometry].color = colors ]
     IN  /\ material' = m
         /\ points' = p
         /\ children' = Append(children, p)
         /\ heap' = Collect(h, { geometry, m, p } \cup Range(children'))
         /\ log' = log \o << made("PointsMaterial"), made("Points") >>
  /\ positions' = Null
  /\ colors' = Null
  /\ pc' = IF event = "load" THEN "setup" ELSE "idle"
  /\ UNCHANGED << parameters, geometry, disposed, event, editing, calls,
                  entry, thrown, locals, loaded, rendered >>
  /\ UNCHANGED particleVars

\* ------------------------------------------------------------ host events
\* generateGalaxy(): the initial galaxy on page load
Load ==
  /\ pc = "load"
  /\ Enter("load")
  /\ UNCHANGED editing

\* the rest of the script: sizes, the resize listener, the camera added to
\* the scene, controls, renderer, clock, and the first tick()
Setup ==
  /\ pc = "setup"
  /\ LET c == NewId(log)
     IN  /\ heap' = (c :> PerspectiveCamera) @@ heap
         /\ children' = Append(children, c)
         /\ log' = Append(log, [ type |-> "PerspectiveCamera", call |-> 0 ])
  /\ loaded' = TRUE
  /\ rendered' = children'
  /\ pc' = "idle"
  /\ UNCHANGED << parameters, geometry, material, points, positions, colors,
                  disposed, event, editing, calls, entry, thrown, locals >>
  /\ UNCHANGED particleVars

\* a controller that regenerates on every change: .onChange(generateGalaxy)
InputRegenerates(field, v) ==
  /\ pc = "idle"
  /\ editing \in { "none", field }
  /\ calls < MaxCalls
  /\ parameters' = [ parameters EXCEPT ![field] = Clamp(field, v) ]
  /\ editing' = field
  /\ calls' = calls + 1
  /\ event' = "change"
  /\ entry' = [ Snapshot EXCEPT !.parameters = parameters' ]
  /\ thrown' = FALSE
  /\ pc' = "cleanup"
  /\ UNCHANGED << geometry, material, points, positions, colors, heap,
                  children, disposed, log, locals, loaded, rendered >>
  /\ UNCHANGED particleVars

\* a controller of gui.add / gui.addColor takes a value from the user: it
\* stores it in parameters and calls no onFinishChange handler yet
Input(field, v) ==
  /\ pc = "idle"
  /\ editing \in { "none", field }
  /\ parameters' = [ parameters EXCEPT ![field] = Clamp(field, v) ]
  /\ editing' = field
  /\ UNCHANGED << geometry, material, points, positions, colors, heap,
                  children, disposed, log, pc, event, calls, entry, thrown,
                  locals, loaded, rendered >>
  /\ UNCHANGED particleVars

\* the user finishes the change: .onFinishChange(generateGalaxy)
FinishChange(field) ==
  /\ pc = "idle"
  /\ editing = field
  /\ editing' = "none"
  /\ Enter("finishChange")

\* a frame callback that runs while a handler is still running
TickAnytime ==
  /\ loaded
  /\ rendered' = children
  /\ UNCHANGED << parameters, geometry, material, points, positions, colors,
                  heap, children, disposed, log, pc, event, editing, calls,
                  entry, thrown, locals, loaded >>
  /\ UNCHANGED particleVars

\* const tick: controls.update(), renderer.render(scene, camera),
\* window.requestAnimationFrame(tick)
Tick ==
  /\ pc = "idle"
  /\ loaded
  /\ rendered' = children
  /\ UNCHANGED << parameters, geometry, material, points, positions, colors,
                  heap, children, disposed, log, pc, event, editing, calls,
                  entry, thrown, locals, loaded >>
  /\ UNCHANGED particleVars

\* ---------------------------------------------------------- specification
\* the state when the script reaches its first generateGalaxy() call
\* the value of an array variable before the script creates the array
NoArray == [ type |-> "undefined", length |-> 0, data |-> << >> ]

\* the page of 17-particles is not open
ParticlesNotLoaded ==
  /\ particles = NoArray
  /\ initial = NoArray
  /\ elapsedTime = 0
  /\ frames = 0
  /\ lastRead = -1
  /\ lastWrite = -1

Init ==
  /\ ParticlesNotLoaded
  /\ parameters = Defaults
  /\ geometry = Null
  /\ material = Null
  /\ points = Null
  /\ positions = Null
  /\ colors = Null
  /\ heap = NoObjects
  /\ children = << >>
  /\ disposed = {}
  /\ log = << >>
  /\ pc = "load"
  /\ event = "load"
  /\ editing = "none"
  /\ calls = 0
  /\ entry = Snapshot
  /\ thrown = FALSE
  /\ locals = << >>
  /\ loaded = FALSE
  /\ rendered = << >>

Next ==
  \/ Load
  \/ Cleanup
  \/ Allocate
  \/ AllocateThrows
  \/ Fill
  \/ Attach
  \/ Setup
  \/ \E field \in Fields : \E v \in Entered[field] : Input(field, v)
  \/ \E field \in Fields : FinishChange(field)
  \/ Tick

Spec == Init /\ [][Next]_vars

\* ------------------------------------------- generateGalaxy as a function
\* parameter bags a caller can hand to generateGalaxy, inside and outside
\* the ranges of the parameter table (a negative count, and radius = 0 and
\* branches = 0, whose results are NaN, are left out)
AnyParameters ==
  [ count : 0..MaxTracked,
    size : { 0, Scale \div 100 },
    radius : { -1 * Scale, 1 * Scale },
    branches : { -2, 1, 2, 3 },
    spin : { 1 * Scale },
    randomness : { -(Scale \div 5), 0, Scale \div 5 },
    randomnessPower : { 0, 1 * Scale, 3 * Scale },
    insideColor : { 16736304 },
    outsideColor : { 1784196 } ]

\* a direct call: generateGalaxy()
Call ==
  /\ pc = "idle"
  /\ Enter("call")
  /\ UNCHANGED editing

InitGen ==
  /\ ParticlesNotLoaded
  /\ parameters \in AnyParameters
  /\ geometry = Null
  /\ material = Null
  /\ points = Null
  /\ positions = Null
  /\ colors = Null
  /\ heap = NoObjects
  /\ children = << >>
  /\ disposed = {}
  /\ log = << >>
  /\ pc = "idle"
  /\ event = "none"
  /\ editing = "none"
  /\ calls = 0
  /\ entry = Snapshot
  /\ thrown = FALSE
  /\ locals = << >>
  /\ loaded = FALSE
  /\ rendered = << >>

NextGen ==
  \/ Call
  \/ Cleanup
  \/ Allocate
  \/ AllocateThrows
  \/ Fill
  \/ Attach

SpecGen == InitGen /\ [][NextGen]_vars

\* ----------------------------------------------------------- vocabulary
\* the Points objects among the children of the scene
Drawables(ch) == { id \in Range(ch) : id \in DOMAIN heap /\ heap[id].type = "Points" }

\* a generateGalaxy call is running
InFlight == pc \in { "cleanup", "allocate", "fill", "attach" }

\* no call is running
AtRest == pc \in { "idle", "setup" }

\* the call that runs, or ran last, found a galaxy attached to the scene
EnteredActive == entry.points # Null /\ entry.points \in Range(entry.children)

\* a parameter bag inside the ranges of the parameter table
Valid(p) ==
  /\ p.count >= 1
  /\ p.size > 0
  /\ p.radius > 0
  /\ p.branches >= 1
  /\ p.randomness >= 0
  /\ p.randomnessPower >= 1 * Scale

\* the objects of the given types created by the calls before the last one
Earlier(types) ==
  { id \in 1..Len(log) :
      log[id].type \in types /\ log[id].call >= 1 /\ log[id].call < calls }

\* the object is the geometry or the material of an attached drawable
Held(id) ==
  \E p \in Drawables(children) : heap[p].geometry = id \/ heap[p].material = id

\* ------------------------------------------------------------------ claims
\* C1: in every reachable state the scene holds at most one galaxy drawable
\* (Points object): a regeneration replaces the previous one.
C1_AtMostOneDrawable == Cardinality(Drawables(children)) <= 1

\* a regeneration has completed and its drawable is the only one attached
C1_Witness ==
  /\ pc = "idle"
  /\ calls >= 2
  /\ ~thrown
  /\ EnteredActive
  /\ Drawables(children) = { points }
  /\ points # entry.points

\* C2: on a regeneration entered with a galaxy attached, the old drawable is
\* detached or disposed only once the generation of the new buffers has
\* completed.
C2_GenerateBeforeDispose ==
  ( /\ InFlight
    /\ EnteredActive
    /\ \/ entry.points \notin Range(children)
       \/ entry.geometry \in disposed
       \/ entry.material \in disposed )
  => pc = "attach"

\* C3: a regeneration entered with a galaxy attached that fails leaves that
\* galaxy displayed: attached, undisposed, and still named by the handles.
C3_FailureKeepsOldField ==
  ( pc = "idle" /\ thrown /\ EnteredActive )
  => /\ entry.points \in Range(children)
     /\ entry.geometry \notin disposed
     /\ entry.material \notin disposed
     /\ points = entry.points
     /\ geometry = entry.geometry
     /\ material = entry.material

\* C4: after any sequence of calls, every geometry and material created by
\* an earlier call is disposed unless an attached drawable holds it, and no
\* drawable of an earlier call is still in the scene.
C4_NoLeak ==
  AtRest =>
    /\ \A id \in Earlier({ "BufferGeometry", "PointsMaterial" }) :
         id \in disposed \/ Held(id)
    /\ \A id \in Earlier({ "Points" }) : id \notin Range(children)

\* C5: for a valid parameter bag the generated positions and colors arrays
\* both have exactly 3 * count slots.
C5_BufferLengths ==
  ( pc = "idle" /\ calls >= 1 /\ ~thrown /\ Valid(parameters) )
  => \A a \in { heap[geometry].position, heap[geometry].color } :
       /\ heap[a].type = "Float32Array"
       /\ heap[a].length = 3 * parameters.count
       /\ ( parameters.count <= MaxTracked
              => DOMAIN heap[a].data = 1..(3 * parameters.count) )

\* a valid bag of several particles has been generated
C5_Witness ==
  /\ pc = "idle"
  /\ calls >= 1
  /\ ~thrown
  /\ Valid(parameters)
  /\ parameters.count >= 2
  /\ heap[heap[geometry].position].length = 3 * parameters.count

\* C6: after any sequence of count edits and calls, the buffers of the
\* attached drawable have 3 * (the count the most recent call ran with)
\* slots.
C6_SizedToLastCall ==
  AtRest =>
    \A p \in Drawables(children) :
      /\ heap[heap[heap[p].geometry].position].length = 3 * entry.parameters.count
      /\ heap[heap[heap[p].geometry].color].length = 3 * entry.parameters.count

\* a third call ran with another count than the second, and a later count
\* edit is not yet finished
C6_Witness ==
  /\ pc = "idle"
  /\ calls = 3
  /\ ~thrown
  /\ Drawables(children) = { points }
  /\ entry.parameters.count = 200
  /\ parameters.count = 100
  /\ editing = "count"
  /\ heap[heap[geometry].position].length = 600

\* C7: generateGalaxy is entered at page load and, after that, only by an
\* onFinishChange event that ends a change; a tick or an unfinished change
\* never enters it.
C7_OnlyCommitsRegenerate ==
  [][ calls' # calls =>
        IF calls = 0
          THEN event' = "load"
          ELSE event' = "finishChange" /\ editing # "none" /\ editing' = "none"
    ]_vars

\* frames were drawn and a change is pending, and still only the initial
\* call has run
C7_Witness ==
  /\ pc = "idle"
  /\ loaded
  /\ calls = 1
  /\ editing = "count"
  /\ parameters.count # entry.parameters.count
  /\ rendered = children

\* C8: a call is entered, and a frame is drawn, only while no call is
\* running: calls never nest and no tick sees a half-replaced galaxy.
C8_Serialized ==
  [][ /\ calls' # calls => ~InFlight
      /\ rendered' # rendered => ~InFlight
    ]_vars

\* a regeneration is running, between its cleanup and its attach, while the
\* render loop is installed
C8_Witness ==
  /\ pc = "fill"
  /\ loaded
  /\ calls >= 2
  /\ EnteredActive
  /\ Drawables(children) = {}
  /\ rendered # children

\* C9: a call with a parameter outside its legal range is rejected with an
\* error before any buffer is allocated, and leaves handles and scene as
\* they were.
C9_InvalidRejected ==
  ( calls >= 1 /\ ~Valid(entry.parameters) )
  => /\ pc \notin { "fill", "attach" }
     /\ pc = "idle" =>
          /\ thrown
          /\ points = entry.points
          /\ geometry = entry.geometry
          /\ material = entry.material
          /\ children = entry.children
          /\ disposed = entry.disposed

\* the arm angle of index residue r among b arms
ArmAngle(r, b) == 2 * Quot(Quot(r * Scale, b) * PI, Scale)

\* C10: the branch angle of particle i is ((i mod branches) / branches) * 2 pi
\* whatever was drawn; with one branch it is 0 for every particle.
C10_BranchAngleByResidue ==
  ( calls >= 1 /\ entry.parameters.branches >= 1 )
  => \A k \in 1..Len(locals) :
       /\ locals[k].branchAngle
            = ArmAngle((k - 1) % entry.parameters.branches, entry.parameters.branches)
       /\ entry.parameters.branches = 1 => locals[k].branchAngle = 0

\* four particles on three arms: the fourth is back on the first arm, with
\* another radius drawn
C10_Witness ==
  /\ pc = "idle"
  /\ ~thrown
  /\ entry.parameters.branches = 3
  /\ Len(locals) = 4
  /\ locals[1].branchAngle = 0
  /\ locals[2].branchAngle > 0
  /\ locals[3].branchAngle > locals[2].branchAngle
  /\ locals[4].branchAngle = 0
  /\ locals[4].radius # locals[1].radius

\* the call that ran last has filled its buffers from entry.parameters
Generated ==
  /\ calls >= 1
  /\ ~thrown
  /\ pc \in { "attach", "idle", "setup" }

\* the tracked particles that the last fill put on the arm of residue r
OnArm(r, b) ==
  { k \in 1..Len(locals) : locals[k].branchAngle = ArmAngle(r, b) }

\* C11: for count >= 1 and branches >= 1 the numbers of particles on any
\* two arms differ by at most one.
C11_ArmsEvenlyPopulated ==
  ( /\ Generated
    /\ entry.parameters.count >= 1
    /\ entry.parameters.count <= MaxTracked
    /\ entry.parameters.branches >= 1 )
  => /\ Len(locals) = entry.parameters.count
     /\ \A r1, r2 \in 0..(entry.parameters.branches - 1) :
          Cardinality(OnArm(r1, entry.parameters.branches))
            - Cardinality(OnArm(r2, entry.parameters.branches)) <= 1

\* four particles on three arms: two on the first arm, one on each other
C11_Witness ==
  /\ Generated
  /\ entry.parameters.count = 4
  /\ entry.parameters.branches = 3
  /\ Cardinality(OnArm(0, 3)) = 2
  /\ Cardinality(OnArm(1, 3)) = 1
  /\ Cardinality(OnArm(2, 3)) = 1

\* the colors array that the stored geometry carries, Null when none
ColorArray ==
  IF geometry \in DOMAIN heap THEN heap[geometry].color ELSE Null

\* the positions array that the stored geometry carries, Null when none
PositionArray ==
  IF geometry \in DOMAIN heap THEN heap[geometry].position ELSE Null

\* the value of channel or axis c of tracked particle k in the array
Slot(array, k, c) == heap[array].data[3 * (k - 1) + c]

\* C12: every generated color value lies between the inside and the
\* outside color of its channel.
C12_ColorWithinEndpoints ==
  ( Generated /\ ColorArray # Null )
  => \A k \in 1..Len(locals) : \A c \in 1..3 :
       LET inside == Color(entry.parameters.insideColor)[c]
           outside == Color(entry.parameters.outsideColor)[c]
       IN  /\ Slot(ColorArray, k, c) >= Min(inside, outside)
           /\ Slot(ColorArray, k, c) <= Max(inside, outside)

\* a particle strictly between the two colors on a channel that falls and
\* on a channel that rises from the inside to the outside
C12_Witness ==
  /\ Generated
  /\ ColorArray # Null
  /\ Len(locals) >= 2
  /\ Color(entry.parameters.insideColor)[1] > Slot(ColorArray, 2, 1)
  /\ Slot(ColorArray, 2, 1) > Color(entry.parameters.outsideColor)[1]
  /\ Color(entry.parameters.insideColor)[3] < Slot(ColorArray, 2, 3)
  /\ Slot(ColorArray, 2, 3) < Color(entry.parameters.outsideColor)[3]

\* C13: a particle whose drawn radius is 0 has exactly the inside color,
\* whatever its branch and its scatter draws.
C13_CenterIsInsideColor ==
  ( Generated /\ ColorArray # Null )
  => \A k \in 1..Len(locals) :
       locals[k].radius = 0
         => \A c \in 1..3 :
              Slot(ColorArray, k, c) = Color(entry.parameters.insideColor)[c]

\* a particle at the center on the second arm, next to one that is not at
\* the center and has another color
C13_Witness ==
  /\ Generated
  /\ ColorArray # Null
  /\ Len(locals) >= 2
  /\ entry.parameters.branches = 2
  /\ locals[2].radius = 0
  /\ locals[2].branchAngle > 0
  /\ locals[1].radius # 0
  /\ Slot(ColorArray, 2, 1) = Color(entry.parameters.insideColor)[1]
  /\ Slot(ColorArray, 1, 1) # Slot(ColorArray, 2, 1)

\* C14: with randomness = 0 every particle lies on the ideal spiral:
\* x = cos(branchAngle + spinAngle) * radius, y = 0,
\* z = sin(branchAngle + spinAngle) * radius.
C14_OnSpiralWithoutRandomness ==
  ( Generated /\ PositionArray # Null /\ entry.parameters.randomness = 0 )
  => \A k \in 1..Len(locals) :
       LET radius == locals[k].radius
           angle == BranchAngle(k - 1, entry.parameters.branches)
                      + Mul(radius, entry.parameters.spin)
       IN  /\ Slot(PositionArray, k, 1) = Mul(Cos(angle), radius)
           /\ Slot(PositionArray, k, 2) = 0
           /\ Slot(PositionArray, k, 3) = Mul(Sin(angle), radius)

\* randomness is 0, the power is 3, and a particle away from the center
\* whose scatter draw is not 0 lies on the spiral
C14_Witness ==
  /\ Generated
  /\ PositionArray # Null
  /\ entry.parameters.randomness = 0
  /\ entry.parameters.randomnessPower = 3 * Scale
  /\ Len(locals) >= 2
  /\ locals[2].radius > 0
  /\ Slot(PositionArray, 2, 1) # 0
  /\ Slot(PositionArray, 2, 3) # 0

\* the arrays that a geometry carries as its attributes
Issued ==
  { id \in DOMAIN heap :
      \E g \in DOMAIN heap :
        /\ heap[g].type = "BufferGeometry"
        /\ id \in { heap[g].position, heap[g].color } }

\* C15: every generate call allocates a new positions/colors pair and
\* writes only into that pair; the arrays of earlier calls keep their
\* contents.
C15_FreshBuffers ==
  [][ /\ \A id \in (Issued \cap DOMAIN heap') : heap'[id] = heap[id]
      /\ (pc = "allocate" /\ pc' = "fill")
           => /\ positions' \notin DOMAIN heap
              /\ colors' \notin DOMAIN heap
              /\ positions' \notin 1..Len(log)
              /\ colors' \notin 1..Len(log)
              /\ positions' # colors'
              /\ { positions', colors' } \subseteq DOMAIN heap'
      /\ (pc = "fill" /\ pc' = "attach")
           => \A id \in DOMAIN heap :
                id \notin { positions, colors } => heap'[id] = heap[id]
    ]_vars

\* a regeneration has filled its pair while the pair of the call before
\* is still there, with other contents
C15_Witness ==
  /\ pc = "attach"
  /\ calls >= 2
  /\ entry.geometry \in DOMAIN heap
  /\ heap[entry.geometry].position \in Issued
  /\ heap[entry.geometry].position # positions
  /\ heap[heap[entry.geometry].position].length = heap[positions].length
  /\ heap[heap[entry.geometry].position].data # heap[positions].data

\* C16: once a generateGalaxy call has completed, a galaxy is active
\* whenever no call runs: points is non-null and attached to the scene.
C16_StaysActive ==
  ( AtRest /\ \E id \in 1..Len(log) : log[id].type = "Points" )
  => /\ points # Null
     /\ points \in Range(children)

\* C17: a call with count = 0 does not throw and leaves a galaxy with two
\* empty arrays, on the first generation and on every regeneration.
C17_EmptyCountIsConsistent ==
  ( calls >= 1 /\ entry.parameters.count = 0 )
  => /\ ~thrown
     /\ AtRest
          => /\ points # Null
             /\ points \in Range(children)
             /\ PositionArray # Null
             /\ heap[PositionArray].length = 0
             /\ heap[PositionArray].data = << >>
             /\ ColorArray # Null
             /\ heap[ColorArray].length = 0
             /\ heap[ColorArray].data = << >>

\* a regeneration with count = 0 has replaced a galaxy with count = 0
C17_Witness ==
  /\ calls >= 2
  /\ entry.parameters.count = 0
  /\ EnteredActive
  /\ pc = "idle"
  /\ heap[PositionArray].length = 0
  /\ points # entry.points

\* C18: whenever no call runs, also after a call that threw, points is
\* non-null exactly when one drawable is attached, that drawable is points,
\* and geometry and material are the undisposed objects it was built from.
C18_HandlesAgreeWithScene ==
  AtRest
  => /\ (points # Null) <=> (Cardinality(Drawables(children)) = 1)
     /\ points # Null
          => /\ Drawables(children) = { points }
             /\ geometry = heap[points].geometry
             /\ material = heap[points].material
             /\ geometry \notin disposed
             /\ material \notin disposed

\* the least and the greatest value of each number controller
LeastOf == [ f \in DOMAIN Limits |-> Limits[f][1] ]
GreatestOf == [ f \in DOMAIN Limits |-> Limits[f][2] ]

\* C19: the range of every number controller lies inside the range of the
\* parameter table, so every parameter bag the panel holds or hands to
\* generateGalaxy is legal: radius and branches are never 0.
C19_PanelValuesAreLegal ==
  /\ Valid(LeastOf)
  /\ Valid(GreatestOf)
  /\ Valid(parameters)
  /\ calls >= 1
       => /\ Valid(entry.parameters)
          /\ entry.parameters.radius # 0
          /\ entry.parameters.branches # 0

\* values entered below the range have reached generateGalaxy as the
\* least values of their controllers
C19_Witness ==
  /\ calls >= 2
  /\ pc = "idle"
  /\ ~thrown
  /\ event = "finishChange"
  /\ entry.parameters.count = Limits.count[1]
  /\ entry.parameters.radius = Limits.radius[1]

\* ------------------------------------------------- 17-particles/script.js
\* const count = 20000
ParticleCount == 20000

\* the bound of both loops over the position array: i < count * 3
Iterations(count) == count * 3

\* the seconds that clock.getElapsedTime() advances from one tick to the next
FrameTimes == { 16, 17, 33, 50, Scale }

\* the script up to its first tick: the position array is created and
\* every slot i gets (Math.random() - 0.5) * 10; colors[i] takes the draw
\* after it
ParticlesLoad ==
  /\ particles = NoArray
  /\ \E s \in 0..(NStreams - 1) :
       LET array == Float32Array(ParticleCount * 3)
           filled ==
             [ array EXCEPT
                 !.data = [ j \in DOMAIN array.data |->
                              IF j - 1 < Iterations(ParticleCount)
                                THEN Mul(Random(s, 2 * (j - 1)) - Scale \div 2,
                                         10 * Scale)
                                ELSE 0 ] ]
       IN  /\ particles' = filled
           /\ initial' = filled
  /\ UNCHANGED << elapsedTime, frames, lastRead, lastWrite >>
  /\ UNCHANGED galaxyVars

\* the loop of tick at elapsed time t: iteration i reads array[i3 + 0] and
\* stores Math.sin(t - x) in array[i3 + 1], with i3 = i * 3.  A read past
\* the end of a typed array yields undefined, a write past it is dropped.
TickLoop(array, t) ==
  [ j \in DOMAIN array.data |->
      LET i == (j - 1) \div 3
      IN  IF (j - 1) % 3 = 1 /\ i < Iterations(ParticleCount)
            THEN Sin(t - array.data[i * 3 + 1])
            ELSE array.data[j] ]

\* one animation frame: tick reads the clock and runs its loop
ParticlesTick ==
  /\ particles # NoArray
  /\ frames < MaxFrames
  /\ \E dt \in FrameTimes :
       /\ elapsedTime' = elapsedTime + dt
       /\ particles' = [ particles EXCEPT !.data = TickLoop(particles, elapsedTime + dt) ]
  /\ frames' = frames + 1
  /\ lastRead' = (Iterations(ParticleCount) - 1) * 3 + 0
  /\ lastWrite' = (Iterations(ParticleCount) - 1) * 3 + 1
  /\ UNCHANGED initial
  /\ UNCHANGED galaxyVars

NextParticles ==
  \/ ParticlesLoad
  \/ ParticlesTick

SpecParticles == Init /\ [][NextParticles]_vars

\* after a tick every tracked particle has y = sin(elapsedTime - x) and the
\* x and z the script gave it
YFollowsX ==
  \A k \in 1..Min(ParticleCount, MaxTracked) :
    /\ particles.data[3 * (k - 1) + 2]
         = Sin(elapsedTime - particles.data[3 * (k - 1) + 1])
    /\ particles.data[3 * (k - 1) + 1] = initial.data[3 * (k - 1) + 1]
    /\ particles.data[3 * (k - 1) + 3] = initial.data[3 * (k - 1) + 3]

\* C20: each tick of the particles demo sets the y of each of the count
\* particles to sin(elapsedTime - x), leaves x and z as they were, and
\* reads and writes only indices in [0, 3 * count) of the position array.
C20_TickStaysInArray ==
  frames >= 1
  => /\ YFollowsX
     /\ lastRead >= 0
     /\ lastRead < 3 * ParticleCount
     /\ lastWrite >= 0
     /\ lastWrite < 3 * ParticleCount

====
